---- MODULE Spec2Model ----
(***************************************************************************)
(* npe240a2.py: Navien NPE-240A2 serial telemetry reader.                  *)
(*                                                                         *)
(* The model follows the program text: Helpers.calculate_crc, Header,      *)
(* GasPacket / WaterPacket field accessors and decode, Mqtt.try_publish    *)
(* and publish_changes, read_packet, main_loop and main.                   *)
(*                                                                         *)
(* Bytes are integers 0..255.  Python None is the empty tuple and a        *)
(* present value v is the one-element tuple <<v>>, so that values of       *)
(* different Python types are never compared with each other.  Float       *)
(* values rounded to one decimal are kept as integers in tenths.           *)
(***************************************************************************)
EXTENDS Integers, Sequences, FiniteSets, TLC

(***************************************************************************)
(* Bounds of the model                                                     *)
(***************************************************************************)
\* number of segments the serial line delivers in one behaviour
MaxArrivals == 2
\* seconds of clock the model follows before the clock saturates
MaxElapsed == 5
\* length of the buffers calculate_crc is applied to on its own
MaxBuffer == 3

(***************************************************************************)
(* Helpers                                                                 *)
(***************************************************************************)
None == << >>
Some(v) == << v >>

RECURSIVE BitXor(_, _)
\* Python's ^ on non-negative integers
BitXor(a, b) ==
    IF a = 0 THEN b
    ELSE IF b = 0 THEN a
    ELSE (((a % 2) + (b % 2)) % 2) + 2 * BitXor(a \div 2, b \div 2)

RECURSIVE BitAnd(_, _)
\* Python's & on non-negative integers
BitAnd(a, b) ==
    IF a = 0 \/ b = 0 THEN 0
    ELSE ((a % 2) * (b % 2)) + 2 * BitAnd(a \div 2, b \div 2)

\* ^ on two bytes, tabulated once
ByteXor == [a \in 0..255 |-> [b \in 0..255 |-> BitXor(a, b)]]

CrcStepNoReduction(result, b) == ByteXor[(result * 2) % 256][b]
\* one round of the loop body of calculate_crc (lines 36-42)
CrcStep(result, b) ==
    LET shifted == result * 2
        reduced == IF shifted > 255 THEN ByteXor[shifted % 256][75] ELSE shifted
    IN ByteXor[reduced % 256][b]

RECURSIVE CrcLoop(_, _, _, _)
\* the rounds for buffer[lo..hi] (one-based), starting from result; the
\* range is halved so that long buffers do not nest deeply, and the result
\* of the first half is bound as a value before the second half uses it
CrcLoop(buffer, lo, hi, result) ==
    IF lo > hi THEN result
    ELSE IF lo = hi THEN CrcStep(result, buffer[lo])
    ELSE LET mid == (lo + hi) \div 2
         IN CHOOSE r \in { CrcLoop(buffer, mid + 1, hi, left) :
                             left \in { CrcLoop(buffer, lo, mid, result) } } : TRUE

\* Helpers.calculate_crc
calculate_crc(buffer) ==
    IF Len(buffer) < 2 THEN 0
    ELSE CHOOSE r \in { CrcLoop(b, 1, Len(b), 255) % 256 : b \in { buffer } } : TRUE

\* data[index] with Python's zero-based index
At(data, index) == data[index + 1]

RECURSIVE LittleEndian(_)
LittleEndian(bs) ==
    IF bs = << >> THEN 0 ELSE Head(bs) + 256 * LittleEndian(Tail(bs))

\* Helpers.slice_bytes: data[index:index+length], clipped as Python clips
slice_bytes(data, index, length) ==
    LET lo == index + 1
        hi == IF index + length > Len(data) THEN Len(data) ELSE index + length
    IN IF lo > hi THEN << >> ELSE SubSeq(data, lo, hi)

\* Helpers.combine_bytes
combine_bytes(data, index, length) == LittleEndian(slice_bytes(data, index, length))

\* Python round() of the non-negative rational num/den to an integer:
\* round half to even
RoundHalfEven(num, den) ==
    LET q == num \div den
        r == num % den
    IN IF 2 * r < den THEN q
       ELSE IF 2 * r > den THEN q + 1
       ELSE IF q % 2 = 0 THEN q ELSE q + 1

\* Helpers.convert_c_f of raw * 0.5 degrees Celsius, in tenths of a degree
\* Fahrenheit: round(raw * 0.5 * 9/5 + 32, 1) * 10
convert_c_f_tenths(raw) == RoundHalfEven(raw * 9 + 320, 1)

\* Helpers.convert_kcal_btu
convert_kcal_btu(kcal) == RoundHalfEven(kcal * 3965667, 1000000)

\* Helpers.convert_liters_gallons of raw * 0.1 liters, in tenths of a gallon
convert_liters_gallons_tenths(raw) == RoundHalfEven(raw * 264172, 1000000)

\* Helpers.convert_m3_ccf of raw * 0.1 m3, in tenths of a ccf
convert_m3_ccf_tenths(raw) == RoundHalfEven(raw * 353147, 1000000)

(***************************************************************************)
(* Packets                                                                 *)
(***************************************************************************)
MARKER_LO == 247
MARKER_HI == 5
GAS_ID == 15
WATER_ID == 80
GAS_LENGTH == 42
WATER_LENGTH == 34

\* Header.type and Header.length of a packet's data
HeaderType(data) == At(data, 3)
HeaderLength(data) == At(data, 5)
\* Packet.crc: data[-1]
PacketCrc(data) == data[Len(data)]

\* indices read with data[index] (not sliced) by GasPacket.__init__ and by
\* the properties process_gas_packet reads
GasDirectIndices == {32, 33, 34, 35, 36, 37} \cup {14, 15, 16}
\* the same for WaterPacket.__init__ and process_water_packet
WaterDirectIndices == {8, 9, 10, 27, 28} \cup {9, 24, 11, 12, 13, 17, 8, 18, 10, 27}

\* the indices data[index:index+length] covers
Span(index, length) == index .. (index + length - 1)
\* every index a GasPacket property or GasPacket.__init__ reads
GasAccessorIndices ==
    GasDirectIndices \cup {6, 46}
        \cup Span(7, 3) \cup Span(10, 2) \cup Span(12, 2) \cup Span(17, 2)
        \cup Span(19, 2) \cup Span(22, 2) \cup Span(24, 4) \cup Span(28, 2)
        \cup Span(30, 2) \cup Span(32, 4) \cup Span(36, 4) \cup Span(38, 8)
\* every index a WaterPacket property or WaterPacket.__init__ reads
WaterAccessorIndices ==
    WaterDirectIndices \cup {6}
        \cup Span(7, 1) \cup Span(14, 3) \cup Span(19, 5) \cup Span(25, 2)
        \cup Span(28, 2) \cup Span(30, 10)

GasDecodeUnchecked(data) == TRUE
\* GasPacket.decode: a view is produced only for header.length == 42
GasDecode(data) == HeaderLength(data) = GAS_LENGTH

WaterDecodeUnchecked(data) == TRUE
\* WaterPacket.decode: a view is produced only for header.length == 34
WaterDecode(data) == HeaderLength(data) = WATER_LENGTH

\* the branch main_loop takes for a packet: "Gas", "Water", "invalid gas",
\* "invalid water" or "unknown"
Classify(data) ==
    IF HeaderType(data) = GAS_ID
    THEN (IF GasDecode(data) THEN "Gas" ELSE "invalid gas")
    ELSE IF HeaderType(data) = WATER_ID
    THEN (IF WaterDecode(data) THEN "Water" ELSE "invalid water")
    ELSE "unknown"

\* an index read with data[index] lies outside the packet: IndexError
RaisesIndexError(kind, data) ==
    \/ kind = "Gas" /\ \E i \in GasDirectIndices : i >= Len(data)
    \/ kind = "Water" /\ \E i \in WaterDirectIndices : i >= Len(data)

\* GasPacket properties used by process_gas_packet
gas_current_usage_kcal(data) == combine_bytes(data, 22, 2)
gas_current_usage_btu(data) == convert_kcal_btu(gas_current_usage_kcal(data))
gas_total_usage_ccf(data) == convert_m3_ccf_tenths(combine_bytes(data, 24, 4))
gas_water_inlet_temp_f(data) == convert_c_f_tenths(At(data, 16))
gas_water_outlet_temp_f(data) == convert_c_f_tenths(At(data, 15))
water_total_usage_g(data) == convert_liters_gallons_tenths(combine_bytes(data, 32, 4))

\* WaterPacket properties used by process_water_packet
flow_status(data) == At(data, 8)
flow_status_recirculating(data) == flow_status(data) = 8
flow_status_demand_any_flow(data) == flow_status(data) # 0
flow_status_demand(data) == flow_status(data) = 32
system_power_recirculation_on(data) == BitAnd(At(data, 9), 32) = 32
system_stage_name(data) ==
    LET stage_id == BitAnd(At(data, 10), 240) \div 16
        stagePrefix == IF flow_status_recirculating(data) THEN "recirculation-" ELSE ""
    IN IF stage_id = 1 THEN "standby"
       ELSE IF stage_id = 2 THEN stagePrefix \o "startup"
       ELSE IF stage_id = 3 THEN stagePrefix \o "active"
       ELSE IF stage_id = 4 THEN stagePrefix \o "shutdown"
       ELSE "unknown-" \o ToString(stage_id)
heatexchanger_outlet_temp_c_tenths_at_11(data) == At(data, 11) * 5
\* heatexchanger_outlet_temp_c, in tenths of a degree: data[12] * 0.5
heatexchanger_outlet_temp_c_tenths(data) == At(data, 12) * 5
\* heatexchanger_outlet_temp_f, in tenths of a degree
heatexchanger_outlet_temp_f_tenths(data) == convert_c_f_tenths(At(data, 12))
operating_capacity(data) == RoundHalfEven(At(data, 17), 2)
flow_rate_gpm(data) == convert_liters_gallons_tenths(At(data, 18))
system_active(data) == At(data, 27) = 1

(***************************************************************************)
(* Mqtt                                                                    *)
(***************************************************************************)
\* the attributes of Mqtt in the order publish_changes evaluates them:
\* 1 gas_current_usage_btu   2 gas_total_usage_ccf   3 recirculating
\* 4 stage                   5 water_capacity        6 water_flow_rate_gpm
\* 7 water_inlet_temp_f      8 water_outlet_temp_f   9 water_total_usage_g
Metrics == 1..9
\* the topics Mqtt.__init__ puts into _last_publish_time
ThrottledTopics == {1, 5, 6, 7, 8}
UnthrottledTopics == Metrics \ ThrottledTopics
\* Mqtt._publish_interval_sec
PublishInterval == 5

\* the attributes of a fresh Mqtt()
EmptyState == [m \in Metrics |-> None]
\* _last_publish_time of a fresh Mqtt(); a topic without a key is None,
\* as dict.get returns it
InitialPublishTime == [m \in Metrics |-> IF m \in ThrottledTopics THEN Some(0) ELSE None]

\* new_state of process_gas_packet
GasNewState(data) ==
    [m \in Metrics |->
        CASE m = 1 -> Some(gas_current_usage_btu(data))
          [] m = 2 -> Some(gas_total_usage_ccf(data))
          [] m = 7 -> Some(gas_water_inlet_temp_f(data))
          [] m = 8 -> Some(gas_water_outlet_temp_f(data))
          [] m = 9 -> Some(water_total_usage_g(data))
          [] OTHER -> None]

\* new_state of process_water_packet
WaterNewState(data) ==
    [m \in Metrics |->
        CASE m = 3 -> Some(system_power_recirculation_on(data))
          [] m = 4 -> Some(system_stage_name(data))
          [] m = 5 -> Some(operating_capacity(data))
          [] m = 6 -> Some(IF flow_status_demand(data) /\ system_active(data)
                           THEN flow_rate_gpm(data) ELSE 0)
          [] OTHER -> None]

ChangedAnyCandidate(cur, new) == new # None
\* try_publish, line 503: is there a candidate and does it differ?
Changed(cur, new) == new # None /\ new # cur

WindowAlwaysOpen(last, t) == TRUE
\* try_publish, line 508: the throttle test
WindowOpen(last, t) == last = None \/ t - last[1] >= PublishInterval

DecisionNoAbsentCheck(cur, new, last, t) ==
    IF new = cur THEN "same"
    ELSE IF WindowOpen(last, t) THEN "publish"
    ELSE "suppress"
\* the outcome of one try_publish evaluation
Decision(cur, new, last, t) ==
    IF new = None THEN "absent"
    ELSE IF ~Changed(cur, new) THEN "same"
    ELSE IF WindowOpen(last, t) THEN "publish"
    ELSE "suppress"

(***************************************************************************)
(* The serial line: what the heater may send                               *)
(***************************************************************************)
\* a payload of n bytes, zero except where ov (keyed by the index in the
\* whole packet) says otherwise
Payload(n, ov) == [k \in 1..n |-> IF (k + 5) \in DOMAIN ov THEN ov[k + 5] ELSE 0]

\* marker, direction, type, reserved, length, payload, checksum
MkFrame(type, payload) ==
    LET body == <<MARKER_LO, MARKER_HI, 0, type, 0, Len(payload)>> \o payload
    IN Append(body, calculate_crc(body))

\* Gas packet with current usage k kcal and total usage tot * 0.1 m3
GasFrame(k, tot) ==
    MkFrame(GAS_ID, Payload(GAS_LENGTH,
        6 :> 69 @@ 15 :> 100 @@ 16 :> 40 @@ 22 :> k @@ 24 :> tot @@ 32 :> 50))

\* Water packet: flow status, system power, stage, capacity, flow rate, active
WaterFrame(w) ==
    MkFrame(WATER_ID, Payload(WATER_LENGTH,
        6 :> 66 @@ 8 :> w[1] @@ 9 :> w[2] @@ 10 :> w[3] @@ 12 :> 40
          @@ 17 :> w[4] @@ 18 :> w[5] @@ 27 :> w[6]))

GasFrames == {GasFrame(g[1], g[2]) : g \in {<<0, 10>>, <<100, 20>>, <<200, 20>>}}
WaterFrames == {WaterFrame(w) : w \in {<<32, 5, 48, 5, 40, 1>>}}
\* a well-formed packet that starts F7 05 00 42 00 22, with command type
\* 0x42 and 0x28 at index 12
Type42Frame == MkFrame(66, Payload(WATER_LENGTH, 6 :> 66 @@ 12 :> 40))
\* well-formed packets main_loop does not decode: an unknown type, a Gas
\* type with length 10, a Water type with length 1, an unknown type whose
\* payload holds the marker
OtherFrames ==
    { MkFrame(66, <<1, 2>>), MkFrame(GAS_ID, Payload(10, 6 :> 69)),
      MkFrame(WATER_ID, <<7>>), MkFrame(66, <<MARKER_LO, MARKER_HI>>) }

RECURSIVE Concat(_)
Concat(fs) == IF fs = << >> THEN << >> ELSE Head(fs) \o Concat(Tail(fs))

\* a packet whose checksum byte is wrong
Corrupt(f) == [f EXCEPT ![Len(f)] = (@ + 1) % 256]

\* the packets that get corrupted or cut short on the line
Damaged == {MkFrame(66, <<1, 2>>), GasFrame(100, 20), MkFrame(66, <<MARKER_LO, MARKER_HI>>)}

\* byte strings that are not a run of well-formed packets
Garbage ==
    {Corrupt(f) : f \in Damaged}
        \cup {SubSeq(f, 1, n) : f \in Damaged, n \in {1, 2, 4, 7}}
        \cup {<<0>>, <<MARKER_LO, MARKER_LO>>, <<MARKER_LO, 0>>}
        \cup {<<MARKER_LO>> \o MkFrame(66, <<1, 2>>)}
        \cup {Corrupt(MkFrame(66, <<1, 2>>)) \o MkFrame(66, <<1, 2>>)}

\* The line is followed under four feeds.  "telemetry": the heater's Gas
\* and Water packets, alone or two back to back, with the clock followed
\* for MaxElapsed seconds.  "framing": packets of every shape, back to back,
\* damaged, cut short, and garbage, with the clock followed for one second.
\* "noisy": a Gas packet or the start of a packet, and then line noise
\* without end or silence.  "steady": Gas and Water packets a second
\* apart, and then the same Gas packet every second without end.
Feeds == {"telemetry", "framing", "noisy", "steady"}

\* the runs of well-formed packets each feed delivers back to back
TelemetryRuns ==
    {<<p>> : p \in GasFrames \cup WaterFrames}
        \cup {<<GasFrame(0, 10), GasFrame(100, 20)>>}
FramingRuns ==
    {<<p>> : p \in OtherFrames \cup {GasFrame(100, 20), Type42Frame} \cup WaterFrames}
        \cup {<<p, q>> : p \in {MkFrame(66, <<1, 2>>), GasFrame(100, 20)},
                         q \in {MkFrame(66, <<1, 2>>), GasFrame(100, 20)}}
NoisyRuns == {<<GasFrame(100, 20)>>, <<GasFrame(200, 20)>>}
FrameRuns(f) ==
    IF f = "telemetry" THEN TelemetryRuns
    ELSE IF f = "framing" THEN FramingRuns
    ELSE NoisyRuns

\* the byte strings a feed delivers that are not runs of well-formed packets
Junk(f) ==
    IF f = "telemetry" THEN {}
    ELSE IF f = "framing" THEN Garbage
    ELSE {<<MARKER_LO, MARKER_HI>>}

\* line noise that never stops and never forms a packet
Noise == <<0, MARKER_LO>>

\* what time.time() may read when the program starts
StartClocks == {0, 1000}
\* the seconds of clock followed under a feed; under the steady feed
\* MaxElapsed seconds after the transient packets
Horizon(f) ==
    IF f = "framing" THEN 1
    ELSE IF f = "steady" THEN MaxArrivals + MaxElapsed
    ELSE MaxElapsed
\* serial.Serial(timeout=1): a timed-out read has waited one second
SerialTimeout == 1
\* the clock after a timed-out read; it stands still at the horizon
Advance(t, f) ==
    IF \E s \in StartClocks : t = s + Horizon(f) THEN t ELSE t + SerialTimeout

(***************************************************************************)
(* State                                                                   *)
(***************************************************************************)
VARIABLES
    pc,                \* where main / main_loop / read_packet stands
    serial,            \* "unopened", "open" or "closed": the object ser
    ser,               \* bytes the serial port has received and not handed out
    feed,              \* which feed the line carries
    noise,             \* bytes the line repeats for ever once ser is empty
    header_rest,       \* read_packet: the four header bytes read
    packet,            \* main_loop: what read_packet returned
    current_state,     \* the module-level Mqtt(): its nine attributes
    last_publish_time, \* current_state._last_publish_time
    now,               \* what time.time() returns
    cancelRequested,   \* the task running main has been cancelled
    debug_mqtt,        \* DEBUG_MQTT
    arrivals,          \* segments the line has delivered
    clean,             \* everything delivered so far was well-formed packets
    expect,            \* while clean: the packets delivered and not yet processed
    exit,              \* how main ended
    ev                 \* what the last step did

vars == << pc, serial, ser, feed, noise, header_rest, packet, current_state,
           last_publish_time, now, cancelRequested, debug_mqtt,
           arrivals, clean, expect, exit, ev >>

\* no try_publish call was made
NoCalls == [m \in Metrics |-> "skipped"]

\* op: the step; res: how it went; raised: the exception it raised, if any;
\* out: for each attribute, what try_publish decided; at: the attribute
\* whose publish raised
Event(op, res, raised) ==
    [op |-> op, res |-> res, raised |-> raised, out |-> NoCalls, at |-> 0]

\* the state after the module is loaded: current_state = Mqtt()
Loaded ==
    /\ pc = "start"
    /\ serial = "unopened"
    /\ ser = << >>
    /\ header_rest = << >>
    /\ packet = None
    /\ current_state = EmptyState
    /\ last_publish_time = InitialPublishTime
    /\ cancelRequested = FALSE
    /\ arrivals = 0
    /\ clean = TRUE
    /\ expect = << >>
    /\ exit = "running"
    /\ ev = Event("init", "", "")

\* Telemetry is followed with DEBUG_MQTT on, as the source sets it: the
\* values are printed.  Framing is followed with DEBUG_MQTT off, so that
\* client.publish is called and may raise.
Init ==
    /\ Loaded
    /\ feed \in {"telemetry", "framing"}
    /\ noise = << >>
    /\ IF feed = "telemetry"
       THEN debug_mqtt = TRUE /\ now \in StartClocks
       ELSE debug_mqtt = FALSE /\ now = 1000

\* the noisy feed: after what it delivers the line is silent or repeats
\* Noise for ever
LiveInit ==
    /\ Loaded
    /\ feed = "noisy"
    /\ noise \in {<< >>, Noise}
    /\ debug_mqtt = FALSE
    /\ now = 1000

(***************************************************************************)
(* main: opening the port, the reconnect loop, the ways out                *)
(***************************************************************************)
mqttVars == << current_state, last_publish_time >>
readVars == << ser, header_rest, packet >>
lineVars == << arrivals, clean, expect >>
fixedVars == << feed, noise, debug_mqtt >>
\* what leaving main does not touch, besides the Mqtt state
keptVars == << now, arrivals, clean, fixedVars >>

SerialAfterExitNoFinally(s, reason) ==
    IF s = "open" /\ reason # "Exception" THEN "closed" ELSE s
\* the finally block of main: ser.close() if ser was ever bound
SerialAfterExit(s, reason) == IF s = "open" THEN "closed" ELSE s

\* an exception leaves main through its except clauses and the finally
\* block; the port's buffer and the locals of main_loop go with it, and a
\* task that has ended has no cancellation pending
Leave(reason, e) ==
    /\ pc' = "done"
    /\ exit' = reason
    /\ serial' = SerialAfterExit(serial, reason)
    /\ ser' = << >>
    /\ header_rest' = << >>
    /\ packet' = None
    /\ expect' = << >>
    /\ cancelRequested' = FALSE
    /\ ev' = e

\* lines 525-533 succeed
OpenSerial ==
    /\ pc = "start"
    /\ pc' = "connect"
    /\ serial' = "open"
    /\ ev' = Event("open", "", "")
    /\ UNCHANGED << readVars, mqttVars, now, cancelRequested,
                    lineVars, exit, fixedVars >>

\* OutputDevice(4) or serial.Serial(...) raises: ser is never bound
OpenSerialFails ==
    /\ pc = "start"
    /\ Leave("Exception", Event("open", "", "Exception"))
    /\ UNCHANGED << mqttVars, keptVars >>

MqttOnConnectFresh(st) == << EmptyState, InitialPublishTime >>
\* the Mqtt object main_loop works on once the client is entered: the
\* module-level current_state of line 520, whatever it holds by then
MqttOnConnect(st) == st

\* async with Client(...) is entered and main_loop starts
Connect ==
    /\ pc = "connect"
    /\ ~cancelRequested
    /\ pc' = "seek1"
    /\ current_state' = MqttOnConnect(mqttVars)[1]
    /\ last_publish_time' = MqttOnConnect(mqttVars)[2]
    /\ ev' = Event("connect", "connected", "")
    /\ UNCHANGED << serial, readVars, now,
                    cancelRequested, lineVars, exit, fixedVars >>

\* entering the client raises MqttError: line 541 catches it and the loop
\* connects again
ConnectMqttError ==
    /\ pc = "connect"
    /\ ~cancelRequested
    /\ ev' = Event("connect", "", "MqttError")
    /\ UNCHANGED << pc, serial, readVars, mqttVars, now,
                    cancelRequested, lineVars, exit, fixedVars >>

\* entering the client raises something that is not an MqttError
ConnectException ==
    /\ pc = "connect"
    /\ ~cancelRequested
    /\ Leave("Exception", Event("connect", "", "Exception"))
    /\ UNCHANGED << mqttVars, keptVars >>

\* the connect is awaited while the task is cancelled
ConnectCancelled ==
    /\ pc = "connect"
    /\ cancelRequested
    /\ Leave("CancelledError", Event("connect", "", "CancelledError"))
    /\ UNCHANGED << mqttVars, keptVars >>

\* Ctrl-C raised inside the running code, wherever it stands
KeyboardInterrupt ==
    /\ pc # "done"
    /\ Leave("KeyboardInterrupt", Event("interrupt", "", "KeyboardInterrupt"))
    /\ UNCHANGED << mqttVars, keptVars >>

\* the task running main is cancelled; the CancelledError is delivered at
\* the next await that suspends
Cancel ==
    /\ pc # "done"
    /\ ~cancelRequested
    /\ cancelRequested' = TRUE
    /\ ev' = Event("cancel", "", "")
    /\ UNCHANGED << pc, serial, readVars, mqttVars, now,
                    lineVars, exit, fixedVars >>

(***************************************************************************)
(* The serial line                                                         *)
(***************************************************************************)
\* a run of well-formed packets arrives
ArriveFrames ==
    /\ serial = "open" /\ pc # "done"
    /\ ser = << >>
    /\ arrivals < MaxArrivals
    /\ \E fs \in FrameRuns(feed) :
         /\ ser' = Concat(fs)
         /\ expect' = IF clean THEN expect \o fs ELSE << >>
    /\ arrivals' = arrivals + 1
    /\ ev' = Event("arrive", "frames", "")
    /\ UNCHANGED << pc, serial, header_rest, packet, mqttVars,
                    now, cancelRequested, clean, exit, fixedVars >>

\* bytes arrive that are not a run of well-formed packets
ArriveJunk ==
    /\ serial = "open" /\ pc # "done"
    /\ ser = << >>
    /\ arrivals < MaxArrivals
    /\ \E j \in Junk(feed) : ser' = j
    /\ clean' = FALSE
    /\ expect' = << >>
    /\ arrivals' = arrivals + 1
    /\ ev' = Event("arrive", "junk", "")
    /\ UNCHANGED << pc, serial, header_rest, packet, mqttVars,
                    now, cancelRequested, exit, fixedVars >>

\* the received bytes followed by as much line noise as a read of n needs
Fill(s, n) ==
    IF Len(s) >= n \/ noise = << >> THEN s
    ELSE s \o [k \in 1..(n - Len(s)) + Len(noise) - 1 |-> noise[((k - 1) % Len(noise)) + 1]]

\* ser.read(n): up to n bytes; fewer when the timeout expires first
Got(n) ==
    LET line == Fill(ser, n)
    IN IF Len(line) >= n THEN SubSeq(line, 1, n) ELSE line
\* what stays in the port's buffer after ser.read(n)
Rest(n) ==
    LET line == Fill(ser, n)
    IN IF Len(line) >= n THEN SubSeq(line, n + 1, Len(line)) ELSE << >>
\* the read had to take line noise
TookNoise(n) == noise # << >> /\ Len(ser) < n

\* the bookkeeping of the line that every ser.read(n) does
Consume(n) ==
    /\ ser' = Rest(n)
    /\ now' = IF Len(Got(n)) < n THEN Advance(now, feed) ELSE now
    /\ clean' = (clean /\ ~TookNoise(n))
    /\ expect' = IF TookNoise(n) THEN << >> ELSE expect
    /\ UNCHANGED arrivals

\* ser.read raises (the device went away): an unexpected exception
SerialException ==
    /\ pc \in {"seek1", "seek2", "header", "payload"}
    /\ Leave("Exception", Event(pc, "", "SerialException"))
    /\ UNCHANGED << mqttVars, keptVars >>

(***************************************************************************)
(* read_packet                                                             *)
(***************************************************************************)
\* read_packet returns None and main_loop goes to its sleep(0)
ReturnNone(step, got) ==
    /\ pc' = "yield"
    /\ packet' = None
    /\ header_rest' = << >>
    /\ ev' = Event(step, IF got = << >> THEN "empty" ELSE "short", "")
    /\ UNCHANGED << serial, exit >>

\* lines 635-639: one byte is read and compared with MARKER_LO
SeekMarker1 ==
    /\ pc = "seek1"
    /\ LET byte == Got(1)
       IN /\ Consume(1)
          /\ IF byte = << >>
             THEN ReturnNone("seek1", byte)
             ELSE /\ pc' = IF byte[1] = MARKER_LO THEN "seek2" ELSE "seek1"
                  /\ ev' = Event("seek1", IF byte[1] = MARKER_LO THEN "next" ELSE "scan", "")
                  /\ UNCHANGED << serial, exit, header_rest, packet >>
    /\ UNCHANGED << mqttVars, cancelRequested, fixedVars >>

AfterSecondByteRescan(b) ==
    IF b = MARKER_HI THEN "header" ELSE IF b = MARKER_LO THEN "seek2" ELSE "seek1"
\* lines 643-645: where read_packet goes on after the second byte; a byte
\* that is not MARKER_HI is dropped and the search starts at the next byte
AfterSecondByte(b) == IF b = MARKER_HI THEN "header" ELSE "seek1"

\* lines 641-645: the second byte is read and compared with MARKER_HI
SeekMarker2 ==
    /\ pc = "seek2"
    /\ LET byte2 == Got(1)
       IN /\ Consume(1)
          /\ IF byte2 = << >>
             THEN ReturnNone("seek2", byte2)
             ELSE /\ pc' = AfterSecondByte(byte2[1])
                  /\ ev' = Event("seek2", IF byte2[1] = MARKER_HI THEN "next" ELSE "scan", "")
                  /\ UNCHANGED << serial, exit, header_rest, packet >>
    /\ UNCHANGED << mqttVars, cancelRequested, fixedVars >>

HeaderTailShortUnchecked(got) == FALSE
\* line 648: len(header_rest) < 4
HeaderTailShort(got) == Len(got) < 4

\* lines 647-651: the rest of the header is read
ReadHeaderTail ==
    /\ pc = "header"
    /\ LET got == Got(4)
       IN IF HeaderTailShort(got)
          THEN /\ Consume(4)
               /\ ReturnNone("header", got)
               /\ UNCHANGED << cancelRequested, fixedVars >>
          ELSE IF Len(got) < 4
          THEN \* header_rest[3] raises IndexError
               /\ Leave("Exception", Event("header", "", "IndexError"))
               /\ UNCHANGED keptVars
          ELSE /\ Consume(4)
               /\ pc' = "payload"
               /\ header_rest' = got
               /\ ev' = Event("header", "next", "")
               /\ UNCHANGED << serial, exit, packet, cancelRequested, fixedVars >>
    /\ UNCHANGED mqttVars

CrcMatchesAlways(data) == TRUE
\* lines 662-665: the checksum of all bytes but the last against the last
CrcMatches(data) == calculate_crc(SubSeq(data, 1, Len(data) - 1)) = PacketCrc(data)

PayloadReadLengthNoChecksum(data_length) == data_length
\* line 654: the payload and the checksum byte are read together
PayloadReadLength(data_length) == data_length + 1

\* lines 654-668: payload and checksum are read, the packet is rebuilt and
\* validated; a mismatch goes round the loop of read_packet again
ReadPayloadAndChecksum ==
    /\ pc = "payload"
    /\ LET data_length == header_rest[4]
           remaining == Got(PayloadReadLength(data_length))
           data == <<MARKER_LO, MARKER_HI>> \o header_rest \o remaining
       IN /\ Consume(PayloadReadLength(data_length))
          /\ IF Len(remaining) < PayloadReadLength(data_length)
             THEN ReturnNone("payload", remaining)
             ELSE IF CrcMatches(data)
             THEN /\ pc' = "process"
                  /\ packet' = Some(data)
                  /\ header_rest' = << >>
                  /\ ev' = Event("payload", "frame", "")
                  /\ UNCHANGED << serial, exit >>
             ELSE /\ pc' = "seek1"
                  /\ header_rest' = << >>
                  /\ ev' = Event("payload", "mismatch", "")
                  /\ UNCHANGED << serial, exit, packet >>
    /\ UNCHANGED << mqttVars, cancelRequested, fixedVars >>

(***************************************************************************)
(* main_loop, process_*_packet, Mqtt.publish_changes and try_publish       *)
(***************************************************************************)
\* the attributes process_gas_packet assigns in new_state
GasMetrics == {1, 2, 7, 8, 9}
\* the attributes process_water_packet assigns in new_state
WaterMetrics == {3, 4, 5, 6}

\* new_state as process_gas_packet or process_water_packet builds it
NewState(kind, data) ==
    IF kind = "Gas" THEN GasNewState(data)
    ELSE IF kind = "Water" THEN WaterNewState(data)
    ELSE EmptyState

\* what each of the nine try_publish calls of publish_changes decides; a
\* call reads and writes the entries of its own attribute only
Outcomes(ns) ==
    [m \in Metrics |-> Decision(current_state[m], ns[m], last_publish_time[m], now)]

\* the decisions of the calls made, the last call being the one for
\* attribute upto
Called(ns, upto) == [m \in Metrics |-> IF m <= upto THEN Outcomes(ns)[m] ELSE "skipped"]

CommitsAlsoSuppressed(outcome) == outcome \in {"publish", "suppress"}
\* try_publish reaches the assignments of lines 510 and 513 only past the
\* two returns of lines 503-504 and 508-509
Commits(outcome) == outcome = "publish"

StoredPublishTimeRefreshed(outcome, last, t) ==
    IF outcome \in {"publish", "suppress"} THEN Some(t) ELSE last
\* line 510: _last_publish_time[topic] after the call; it is assigned
\* inside the throttle test, so only when the call publishes
StoredPublishTime(outcome, last, t) == IF Commits(outcome) THEN Some(t) ELSE last

\* lines 510 and 513 for the calls made: both assignments happen before
\* anything is printed or sent, so also in the call whose publish raises
PublishChanges(ns, upto) ==
    /\ last_publish_time' =
         [m \in Metrics |-> IF m <= upto
                            THEN StoredPublishTime(Outcomes(ns)[m], last_publish_time[m], now)
                            ELSE last_publish_time[m]]
    /\ current_state' =
         [m \in Metrics |-> IF m <= upto /\ Commits(Outcomes(ns)[m])
                            THEN ns[m] ELSE current_state[m]]

\* the packet read_packet returned decodes and its fields can be read
Decodes ==
    /\ pc = "process"
    /\ Classify(packet[1]) \in {"Gas", "Water"}
    /\ ~RaisesIndexError(Classify(packet[1]), packet[1])

\* the packet handled leaves the packets awaited
Handled == expect' = IF expect = << >> THEN expect ELSE Tail(expect)

\* lines 557-581 with process_*_packet and publish_changes, nothing raising:
\* the packet is classified; if it decodes, new_state is built from its
\* fields and the nine attributes are evaluated in order
ProcessPacket ==
    /\ pc = "process"
    /\ LET data == packet[1]
           kind == Classify(data)
           ns == NewState(kind, data)
       IN IF kind \in {"Gas", "Water"} /\ RaisesIndexError(kind, data)
          THEN /\ Leave("Exception", Event("process", kind, "IndexError"))
               /\ UNCHANGED << mqttVars, keptVars >>
          ELSE /\ IF kind \in {"Gas", "Water"}
                  THEN /\ PublishChanges(ns, 9)
                       /\ ev' = [Event("process", kind, "") EXCEPT !.out = Called(ns, 9)]
                  ELSE /\ UNCHANGED mqttVars
                       /\ ev' = Event("process", kind, "")
               /\ pc' = "yield"
               /\ Handled
               /\ UNCHANGED << serial, exit, readVars, cancelRequested, keptVars >>

\* the same, but await client.publish of attribute k raises MqttError:
\* line 541 catches it and main connects again
PublishMqttError ==
    /\ Decodes
    /\ ~debug_mqtt
    /\ LET kind == Classify(packet[1])
           ns == NewState(kind, packet[1])
       IN \E k \in Metrics :
            /\ Outcomes(ns)[k] = "publish"
            /\ PublishChanges(ns, k)
            /\ ev' = [Event("process", kind, "MqttError") EXCEPT !.out = Called(ns, k), !.at = k]
    /\ pc' = "connect"
    /\ packet' = None
    /\ Handled
    /\ UNCHANGED << serial, exit, ser, header_rest, now, cancelRequested,
                    arrivals, clean, fixedVars >>

\* await client.publish of attribute k raises something else
PublishException ==
    /\ Decodes
    /\ ~debug_mqtt
    /\ LET kind == Classify(packet[1])
           ns == NewState(kind, packet[1])
       IN \E k \in Metrics :
            /\ Outcomes(ns)[k] = "publish"
            /\ PublishChanges(ns, k)
            /\ Leave("Exception",
                     [Event("process", kind, "Exception") EXCEPT !.out = Called(ns, k), !.at = k])
    /\ UNCHANGED keptVars

\* await client.publish of attribute k suspends while the task is cancelled
PublishCancelled ==
    /\ Decodes
    /\ ~debug_mqtt
    /\ cancelRequested
    /\ LET kind == Classify(packet[1])
           ns == NewState(kind, packet[1])
       IN \E k \in Metrics :
            /\ Outcomes(ns)[k] = "publish"
            /\ PublishChanges(ns, k)
            /\ Leave("CancelledError",
                     [Event("process", kind, "CancelledError") EXCEPT !.out = Called(ns, k), !.at = k])
    /\ UNCHANGED keptVars

\* line 584, await asyncio.sleep(0): a pending cancellation is delivered
\* here, otherwise the loop goes round
Yield ==
    /\ pc = "yield"
    /\ IF cancelRequested
       THEN Leave("CancelledError", Event("yield", "", "CancelledError"))
       ELSE /\ pc' = "seek1"
            /\ ev' = Event("yield", "", "")
            /\ UNCHANGED << serial, exit, readVars, expect, cancelRequested >>
    /\ UNCHANGED << mqttVars, keptVars >>

(***************************************************************************)
(* Specifications                                                          *)
(***************************************************************************)
\* the steps of the program itself
Program ==
    \/ OpenSerial
    \/ Connect
    \/ ConnectCancelled
    \/ SeekMarker1
    \/ SeekMarker2
    \/ ReadHeaderTail
    \/ ReadPayloadAndChecksum
    \/ ProcessPacket
    \/ Yield

\* what the world around the program does
Environment ==
    \/ OpenSerialFails
    \/ ConnectMqttError
    \/ ConnectException
    \/ PublishMqttError
    \/ PublishException
    \/ PublishCancelled
    \/ SerialException
    \/ KeyboardInterrupt
    \/ Cancel
    \/ ArriveFrames
    \/ ArriveJunk

Next == Program \/ Environment

Spec == Init /\ [][Next]_vars

\* the event loop keeps running the task: a step of the program that can
\* be taken is taken
LiveSpec == LiveInit /\ [][Next]_vars /\ WF_vars(Program)

(***************************************************************************)
(* Properties                                                              *)
(***************************************************************************)
\* the step taken handles the packet read_packet returned
ProcessStep == pc = "process" /\ ev'.op = "process"
\* the candidate values of the packet being handled
Candidate == NewState(Classify(packet[1]), packet[1])
\* the step made the try_publish call for attribute m
Evaluated(m) == ev'.out[m] # "skipped"

\* C1: for an attribute without a throttle interval, every try_publish
\* evaluation whose candidate is present and differs from the last
\* published value publishes it, however recent the last publish was
C1_UnthrottledAlwaysPublishes ==
    [][ProcessStep =>
          \A m \in UnthrottledTopics :
             (Evaluated(m) /\ Candidate[m] # None /\ Candidate[m] # current_state[m])
                => (ev'.out[m] = "publish" /\ current_state'[m] = Candidate[m])]_vars

\* C2: a throttled attribute of which nothing has been published yet has its
\* first candidate published whatever the clock reads; after that a
\* differing candidate is published exactly when 5 s have passed since the
\* last publish (published at t=0, suppressed at t=1, published at t=6)
C2_FirstValuePublished ==
    [][ProcessStep =>
          \A m \in ThrottledTopics :
             (Evaluated(m) /\ Candidate[m] # None /\ Candidate[m] # current_state[m])
                => IF current_state[m] = None
                   THEN ev'.out[m] = "publish"
                   ELSE (ev'.out[m] = "publish")
                            <=> (now - last_publish_time[m][1] >= PublishInterval)]_vars

\* C3: a candidate equal to the last published value causes no publish and
\* changes neither the last published value nor the last publish time,
\* whatever time has passed and whether or not the attribute is throttled
C3_SameValueNoAction ==
    [][ProcessStep =>
          \A m \in Metrics :
             (Evaluated(m) /\ Candidate[m] = current_state[m])
                => /\ ev'.out[m] # "publish"
                   /\ current_state'[m] = current_state[m]
                   /\ last_publish_time'[m] = last_publish_time[m]]_vars

\* a value was offered again after the throttle window had passed
C3_Witness ==
    /\ ev.op = "process"
    /\ \E m \in Metrics :
         /\ ev.out[m] = "same"
         /\ last_publish_time[m] # None
         /\ now - last_publish_time[m][1] >= PublishInterval

\* C4: when the publish call of attribute m raises, the last published
\* value and the last publish time of m are what they were before the call
C4_RaiseLeavesStateAlone ==
    [][(ProcessStep /\ ev'.at # 0) =>
          /\ current_state'[ev'.at] = current_state[ev'.at]
          /\ last_publish_time'[ev'.at] = last_publish_time[ev'.at]]_vars

\* marker, declared length and checksum of a packet are right
WellFormedPacket(data) ==
    /\ Len(data) >= 7
    /\ data[1] = MARKER_LO /\ data[2] = MARKER_HI
    /\ Len(data) = 6 + HeaderLength(data) + 1
    /\ data[Len(data)] = calculate_crc(SubSeq(data, 1, Len(data) - 1))

ReadStates == {"seek1", "seek2", "header", "payload"}
\* the step taken is a ser.read of read_packet that the port answered
ReadReturned == pc \in ReadStates /\ ev'.op = pc /\ ev'.raised # "SerialException"
\* ... and that read_packet took without raising
ReadStep == ReadReturned /\ ev'.raised = ""
\* the number of bytes the read that is next asks for
Requested ==
    IF pc = "header" THEN 4
    ELSE IF pc = "payload" THEN PayloadReadLength(header_rest[4])
    ELSE 1

\* C5: every packet read_packet returns starts with F7 05, is
\* 6 + header.length + 1 bytes long and ends with calculate_crc of the bytes
\* before; on a checksum mismatch read_packet does not raise and does not
\* return but goes on scanning the bytes that follow
C5_ReturnedFramesValid ==
    /\ [][(ReadStep /\ packet' # None) => WellFormedPacket(packet'[1])]_vars
    /\ [][(ReadStep /\ ev'.res = "mismatch") =>
             /\ pc' = "seek1" /\ exit' = "running"
             /\ packet' = packet
             /\ ser' = Rest(Requested)]_vars

\* a packet was returned from a line that also carried garbage
C5_Witness ==
    /\ ev.op = "payload" /\ ev.res = "frame"
    /\ ~clean
    /\ packet # None

\* C6: while the line has carried nothing but well-formed packets,
\* read_packet returns exactly the packets delivered, each once and in
\* order, returns no packet only when none is left, and main_loop handles
\* each returned packet before the next is read
C6_FramesInOrder ==
    /\ [][(ReadStep /\ clean' /\ ev'.res = "frame") =>
             expect # << >> /\ packet' = Some(Head(expect))]_vars
    /\ [][(ReadStep /\ clean' /\ ev'.res \in {"empty", "short", "mismatch"}) =>
             /\ ev'.op = "seek1" /\ ev'.res = "empty"
             /\ expect = << >> /\ ser = << >>]_vars
    /\ [][(ProcessStep /\ clean) =>
             /\ expect # << >> /\ packet[1] = Head(expect)
             /\ expect' = IF pc' = "done" THEN << >> ELSE Tail(expect)]_vars

\* both packets of a run that arrived back to back were returned: the
\* first has been handled and the second is in hand
C6_Witness ==
    /\ feed = "telemetry" /\ clean /\ arrivals = 1
    /\ ev.op = "payload" /\ ev.res = "frame"
    /\ packet = Some(GasFrame(100, 20))
    /\ current_state[2] = Some(gas_total_usage_ccf(GasFrame(0, 10)))
    /\ expect = <<GasFrame(100, 20)>>

\* C7: a validated packet is handled as Gas exactly when its type is the
\* Gas code and header.length is 42, as Water exactly when its type is the
\* Water code and header.length is 34; otherwise decoding fails, no
\* try_publish call is made and the Mqtt state is unchanged
C7_Classification ==
    [][ProcessStep =>
          LET data == packet[1]
          IN /\ (ev'.res = "Gas") <=> (HeaderType(data) = 15 /\ HeaderLength(data) = 42)
             /\ (ev'.res = "Water") <=> (HeaderType(data) = 80 /\ HeaderLength(data) = 34)
             /\ (ev'.res = "Gas" /\ ev'.raised = "") =>
                   \A m \in Metrics : (ev'.out[m] = "absent") <=> (m \in {3, 4, 5, 6})
             /\ (ev'.res = "Water" /\ ev'.raised = "") =>
                   \A m \in Metrics : (ev'.out[m] = "absent") <=> (m \in {1, 2, 7, 8, 9})
             /\ (ev'.res \notin {"Gas", "Water"}) =>
                   /\ ev'.out = NoCalls /\ ev'.raised = ""
                   /\ UNCHANGED mqttVars
                   /\ pc' = "yield"]_vars

\* a Gas-typed packet of another length was discarded
C7_Witness == ev.op = "process" /\ ev.res = "invalid gas" /\ pc = "yield"

\* C8: a read that gets fewer bytes than it asked for, at any of the four
\* reads, makes read_packet return None without raising, as a read that
\* gets nothing does, and main_loop goes on to its next iteration
C8_ShortReadIsNoFrame ==
    /\ [][(ReadReturned /\ Len(Got(Requested)) < Requested) =>
             /\ ev'.raised = ""
             /\ ev'.res \in {"empty", "short"}
             /\ pc' = "yield" /\ packet' = None
             /\ exit' = "running" /\ serial' = "open"]_vars
    /\ [][(pc = "yield" /\ ev'.op = "yield" /\ ~cancelRequested) => pc' = "seek1"]_vars

\* the payload read came back short, some bytes but not all
C8_Witness == ev.op = "payload" /\ ev.res = "short" /\ pc = "yield"

\* C9: main never ends with the serial port open
C9_PortClosedOnExit == pc = "done" => serial # "open"

\* main ended through an exception raised while publishing, port closed
C9_Witness ==
    /\ pc = "done" /\ serial = "closed"
    /\ exit = "Exception" /\ ev.op = "process"

\* C10: once the task has been cancelled the read loop ends, whatever the
\* serial line keeps delivering
C10_CancelLeadsToExit == cancelRequested ~> (pc = "done")

\* C11: every call of read_packet returns, with a packet or with None,
\* whatever the line delivers, so that main_loop gets to its sleep(0)
C11_ReadPacketReturns == (pc \in ReadStates) ~> (pc \notin ReadStates)

(***************************************************************************)
(* calculate_crc on its own: every buffer of up to MaxBuffer bytes         *)
(***************************************************************************)
\* bytes with and without the top bit, the polynomial and the markers
CrcBytes == {0, 1, 75, 128, MARKER_LO, 255}
CrcBuffers == UNION {[1..n -> CrcBytes] : n \in 0..MaxBuffer}

\* the module is loaded and a buffer is chosen; ser holds it
CrcInit ==
    /\ pc = "start"
    /\ serial = "unopened"
    /\ ser \in CrcBuffers
    /\ header_rest = << >>
    /\ packet = None
    /\ current_state = EmptyState
    /\ last_publish_time = InitialPublishTime
    /\ cancelRequested = FALSE
    /\ arrivals = 0
    /\ clean = TRUE
    /\ expect = << >>
    /\ exit = "running"
    /\ ev = Event("init", "", "")
    /\ feed = "telemetry" /\ noise = << >>
    /\ debug_mqtt = TRUE /\ now = 0

\* Helpers.calculate_crc(buffer) is computed and appended, as the sender
\* of a packet does
AppendCrc ==
    /\ pc = "start" /\ packet = None
    /\ packet' = Some(Append(ser, calculate_crc(ser)))
    /\ ev' = Event("crc", "appended", "")
    /\ UNCHANGED << pc, serial, ser, header_rest, mqttVars, now, cancelRequested,
                    lineVars, exit, fixedVars >>

\* lines 661-665 of read_packet applied to the buffer with its checksum
ValidateCrc ==
    /\ pc = "start" /\ packet # None /\ ev.op = "crc"
    /\ ev' = Event("validate", IF CrcMatches(packet[1]) THEN "valid" ELSE "mismatch", "")
    /\ UNCHANGED << pc, serial, readVars, mqttVars, now, cancelRequested,
                    lineVars, exit, fixedVars >>

CrcNext == AppendCrc \/ ValidateCrc
CrcSpec == CrcInit /\ [][CrcNext]_vars

\* the algorithm as the claim words it: bit i of x
RefBit(x, i) == (x \div (2 ^ i)) % 2
RECURSIVE RefXorFrom(_, _, _)
\* exclusive or of the bits i..7 of two bytes
RefXorFrom(a, b, i) ==
    IF i > 7 THEN 0
    ELSE ((RefBit(a, i) + RefBit(b, i)) % 2) * (2 ^ i) + RefXorFrom(a, b, i + 1)
\* shift left by one; XOR the low 8 bits with 0x4B if the shifted value
\* exceeded 0xFF; XOR the low 8 bits with the data byte
RefRound(result, byte) ==
    LET shifted == 2 * result
        low == shifted % 256
        reduced == IF shifted > 255 THEN RefXorFrom(low, 75, 0) ELSE low
    IN RefXorFrom(reduced, byte, 0)
RECURSIVE RefCrcFrom(_, _, _)
RefCrcFrom(b, i, result) ==
    IF i > Len(b) THEN result ELSE RefCrcFrom(b, i + 1, RefRound(result, b[i]))
RefCrc(b) == IF Len(b) < 2 THEN 0 ELSE RefCrcFrom(b, 1, 255)

\* C12: calculate_crc is the reference algorithm on every buffer: 0 for
\* fewer than two bytes, otherwise 0xFF shifted, reduced by 0x4B and XORed
\* with each byte in order; the result is a byte, and a buffer of two or
\* more bytes followed by its checksum passes read_packet's validation
C12_CrcIsReference ==
    packet # None =>
        LET data == packet[1]
            b == SubSeq(data, 1, Len(data) - 1)
            crc == data[Len(data)]
        IN /\ b = ser
           /\ crc = RefCrc(b)
           /\ crc \in 0..255
           /\ Len(b) < 2 => crc = 0
           /\ (ev.op = "validate" /\ Len(b) >= 2) => ev.res = "valid"

\* a buffer of full length starting with a byte that has its top bit set
\* got its checksum and passed validation
C12_Witness ==
    /\ ev.op = "validate" /\ ev.res = "valid"
    /\ Len(ser) >= 3 /\ ser[1] = 128 /\ ser[2] = 255
    /\ packet[1][Len(packet[1])] # 0

\* what process_water_packet reads of the outlet of the heat exchanger
\* (line 617), in tenths of a degree Celsius and Fahrenheit
OutletTemps(data) ==
    <<heatexchanger_outlet_temp_c_tenths(data), heatexchanger_outlet_temp_f_tenths(data)>>

\* C13 as stated: the stream F7 05 00 42 00 22, the payload with 0x28 at
\* the outlet temperature byte and a correct checksum is framed, validated
\* and decoded as a Water packet with outlet temperature 20.0 C, 68.0 F
C13_Type42DecodesAsWater ==
    [][(ProcessStep /\ packet[1] = Type42Frame) =>
          /\ ev'.res = "Water"
          /\ OutletTemps(packet[1]) = <<200, 680>>]_vars

\* C13 amended: the same with the type byte Header.WATER_ID, that is the
\* stream F7 05 00 50 00 22, 34 payload bytes with 0x28 at index 12 of the
\* packet, and a correct checksum
C13_WaterIdDecodesAsWater ==
    /\ [][(ReadStep /\ pc = "payload" /\ clean /\ expect # << >>
                    /\ Head(expect) \in WaterFrames) =>
             ev'.res = "frame" /\ packet' = Some(Head(expect))]_vars
    /\ [][(ProcessStep /\ HeaderType(packet[1]) = WATER_ID
                       /\ HeaderLength(packet[1]) = WATER_LENGTH
                       /\ At(packet[1], 12) = 40) =>
             /\ ev'.res = "Water"
             /\ OutletTemps(packet[1]) = <<200, 680>>]_vars

\* the Water packet came off the line and was decoded
C13_Witness ==
    /\ ev.op = "process" /\ ev.res = "Water" /\ ev.raised = ""
    /\ clean /\ arrivals = 1
    /\ current_state[4] = Some("active")

\* C14: an MqttError and the reconnect that follows do not reset the Mqtt
\* state: no step of main's connect loop changes current_state or
\* _last_publish_time, and nothing but the handling of a packet ever does
C14_ReconnectKeepsState ==
    /\ [][(pc = "connect" /\ ev'.op = "connect") => UNCHANGED mqttVars]_vars
    /\ [][(ev'.op # "process") => UNCHANGED mqttVars]_vars
    /\ [][(ProcessStep /\ ev'.raised = "MqttError") => pc' = "connect"]_vars

\* main has connected again after a publish failed, and the values
\* published before the failure are still there
C14_Witness ==
    /\ ev.op = "connect" /\ ev.res = "connected"
    /\ pc = "seek1"
    /\ current_state # EmptyState
    /\ \E m \in Metrics : last_publish_time[m] = Some(now)

\* C15: for a topic with a throttle interval, a publish happens only when
\* at least PublishInterval seconds have passed since the topic's last
\* publish time, which then becomes the present time; no other step
\* changes it, so under the non-decreasing clock it never decreases and
\* consecutive publishes are at least the interval apart
C15_ThrottledPublishesApart ==
    /\ [][now' >= now]_vars
    /\ [][\A m \in ThrottledTopics :
            /\ last_publish_time[m] # None /\ last_publish_time'[m] # None
            /\ last_publish_time'[m][1] >= last_publish_time[m][1]
            /\ last_publish_time'[m][1] <= now
            /\ IF ProcessStep /\ ev'.out[m] = "publish"
               THEN /\ now - last_publish_time[m][1] >= PublishInterval
                    /\ last_publish_time'[m] = Some(now)
               ELSE last_publish_time'[m] = last_publish_time[m]]_vars

\* the second Gas packet: the gas usage, published with the first packet,
\* has changed and is published again, the inlet temperature has not
C15_Witness ==
    /\ ev.op = "process" /\ ev.res = "Gas" /\ ev.raised = ""
    /\ arrivals = 2
    /\ ev.out[1] = "publish" /\ ev.out[7] = "same"
    /\ last_publish_time[1] = Some(now)
    /\ last_publish_time[7] # None /\ now - last_publish_time[7][1] >= PublishInterval

\* C16: when the checksum of an assembled packet does not match, the
\* read_packet call in progress ends there with no packet, and main_loop
\* gets to yield before another byte is read
C16_MismatchEndsCall ==
    [][(ReadStep /\ ev'.res = "mismatch") => (pc' = "yield" /\ packet' = None)]_vars

\* C17: read_packet never looks at a byte twice.  Every ser.read(n) takes
\* its bytes off the front of the line; a second byte that is not MARKER_HI
\* is dropped even when it is MARKER_LO, the search going on with the byte
\* after it; after a checksum mismatch the search goes on with the byte
\* after the checksum byte, so nothing of the dropped packet is read again
C17_NoByteReexamined ==
    /\ [][ReadReturned => ser' = Rest(Requested)]_vars
    /\ [][(ReadStep /\ pc = "seek2" /\ Got(1) # << >> /\ Got(1)[1] # MARKER_HI)
            => (pc' = "seek1" /\ ev'.res = "scan")]_vars
    /\ [][(ReadStep /\ ev'.res = "mismatch")
            => (pc' = "seek1" /\ packet' = packet /\ header_rest' = << >>
                /\ ser' = Rest(Requested))]_vars

\* the second byte read was MARKER_LO: it is gone and the byte after it,
\* MARKER_HI, is the next one the first-marker search will read
C17_Witness ==
    /\ ev.op = "seek2" /\ ev.res = "scan"
    /\ pc = "seek1"
    /\ ser = Tail(MkFrame(66, <<1, 2>>))

\* C18: a changed candidate that try_publish suppresses is dropped.  The
\* attribute's last published value and last publish time stay as they
\* were, and the state holds nothing else per attribute, so nothing of the
\* candidate is kept; what a later evaluation publishes is the candidate
\* of that evaluation, which differs from the last published value
C18_SuppressedCandidateDropped ==
    [][ProcessStep =>
         \A m \in Metrics :
            /\ ev'.out[m] = "suppress" =>
                  /\ Candidate[m] # None /\ Candidate[m] # current_state[m]
                  /\ current_state'[m] = current_state[m]
                  /\ last_publish_time'[m] = last_publish_time[m]
            /\ ev'.out[m] = "publish" =>
                  /\ current_state'[m] = Candidate[m]
                  /\ Candidate[m] # current_state[m]
                  /\ last_publish_time'[m] = Some(now)]_vars

\* the second Gas packet comes within the window with another gas usage:
\* it is suppressed and the usage of the first packet stays published
C18_Witness ==
    /\ ev.op = "process" /\ ev.res = "Gas"
    /\ arrivals = 2
    /\ ev.out[1] = "suppress"
    /\ current_state[1] # None
    /\ last_publish_time[1] # None /\ now - last_publish_time[1][1] < PublishInterval

\* C19: an attribute the packet handled does not produce is not acted on.
\* Handling a Gas packet evaluates the attributes only Water packets
\* produce as absent and leaves their published value and publish time
\* alone; handling a Water packet does so for those only Gas packets produce
C19_AbsentCandidateNoAction ==
    [][ProcessStep =>
         \A m \in Metrics :
            ((ev'.res = "Gas" /\ m \in WaterMetrics) \/ (ev'.res = "Water" /\ m \in GasMetrics))
               => /\ Candidate[m] = None
                  /\ ev'.out[m] \in {"absent", "skipped"}
                  /\ current_state'[m] = current_state[m]
                  /\ last_publish_time'[m] = last_publish_time[m]]_vars

\* a Gas packet handled after a Water packet: the gas usage is published
\* and the stage the Water packet gave stays published
C19_Witness ==
    /\ ev.op = "process" /\ ev.res = "Gas" /\ ev.raised = ""
    /\ ev.out[1] = "publish" /\ ev.out[4] = "absent"
    /\ current_state[4] # None /\ current_state[3] # None

\* C20: once decode has produced a view, every index a property or the
\* constructor reads lies inside the packet and before its checksum byte:
\* a Gas packet is 49 bytes long, a Water packet 41, all indices read are
\* below the index of the last byte, and no read raises IndexError
C20_AccessorsInBounds ==
    [][ProcessStep =>
         LET data == packet[1]
         IN /\ ev'.res = "Gas" =>
                  /\ Len(data) = 49
                  /\ \A i \in GasAccessorIndices : i >= 0 /\ i < Len(data) - 1
            /\ ev'.res = "Water" =>
                  /\ Len(data) = 41
                  /\ \A i \in WaterAccessorIndices : i >= 0 /\ i < Len(data) - 1
            /\ ev'.raised # "IndexError"]_vars

\* a Water packet has been decoded and its fields read; the last index a
\* property reads is the byte before the checksum
C20_Witness ==
    /\ ev.op = "process" /\ ev.res = "Water" /\ ev.raised = ""
    /\ packet # None /\ WaterDecode(packet[1])
    /\ 39 \in WaterAccessorIndices /\ 39 = Len(packet[1]) - 2
    /\ current_state[5] = Some(operating_capacity(packet[1]))

(***************************************************************************)
(* Decoding Water packets: main_loop with a Water packet in hand           *)
(***************************************************************************)
\* flow status, system power, stage, capacity, flow rate and active byte of
\* the Water packets decoded: no flow, recirculating and demand; every
\* stage nibble 0..5 and 15, one with the low nibble set; the active byte
\* 0, 1 and 2
DecodeInputs ==
    { <<f, 5, st, 5, r, a>> :
        f \in {0, 8, 32}, st \in {0, 16, 32, 48, 49, 64, 80, 240},
        r \in {0, 40}, a \in {0, 1, 2} }
DecodeFrames == { WaterFrame(w) : w \in DecodeInputs }

\* read_packet has just returned a Water packet to main_loop, the first
\* the line delivered
DecodeInit ==
    /\ pc = "process"
    /\ serial = "open"
    /\ ser = << >>
    /\ header_rest = << >>
    /\ packet \in { Some(f) : f \in DecodeFrames }
    /\ current_state = EmptyState
    /\ last_publish_time = InitialPublishTime
    /\ cancelRequested = FALSE
    /\ arrivals = 1
    /\ clean = TRUE
    /\ expect = << packet[1] >>
    /\ exit = "running"
    /\ ev = Event("payload", "frame", "")
    /\ feed = "telemetry" /\ noise = << >>
    /\ debug_mqtt = TRUE /\ now = 1000

DecodeNext == ProcessPacket \/ Yield
DecodeSpec == DecodeInit /\ [][DecodeNext]_vars

\* C21: the stage name of a Water packet is given by the high nibble of
\* the stage byte (1 standby, 2 startup, 3 active, 4 shutdown, any other N
\* unknown-N), and carries the prefix "recirculation-" whenever the flow
\* status is 0x08, whatever the stage
C21_StageNamePrefixed ==
    [][(ProcessStep /\ ev'.res = "Water") =>
         LET data == packet[1]
             n == At(data, 10) \div 16
             base == IF n = 1 THEN "standby"
                     ELSE IF n = 2 THEN "startup"
                     ELSE IF n = 3 THEN "active"
                     ELSE IF n = 4 THEN "shutdown"
                     ELSE "unknown-" \o ToString(n)
             prefix == IF At(data, 8) = 8 THEN "recirculation-" ELSE ""
         IN Candidate[4] = Some(prefix \o base)]_vars

\* C23: the flow rate candidate process_water_packet hands over is the
\* decoded flow rate only when the flow status is 0x20 and the active byte
\* is 0x01; otherwise it is 0.0, whatever the flow-rate byte holds
C23_FlowRateOnlyOnActiveDemand ==
    [][(ProcessStep /\ ev'.res = "Water") =>
         LET data == packet[1]
             rate == RoundHalfEven(At(data, 18) * 264172, 1000000)
         IN /\ Candidate[6] = Some(IF At(data, 8) = 32 /\ At(data, 27) = 1 THEN rate ELSE 0)
            /\ ev'.out[6] = "publish" => current_state'[6] = Candidate[6]]_vars

\* a Water packet with recirculating flow, the active byte set and a flow
\* rate of 4.0 l/min has been handled: the flow rate published is 0.0
C23_Witness ==
    /\ ev.op = "process" /\ ev.res = "Water" /\ ev.out[6] = "publish"
    /\ packet # None
    /\ At(packet[1], 8) = 8 /\ At(packet[1], 27) = 1 /\ At(packet[1], 18) = 40
    /\ flow_rate_gpm(packet[1]) # 0
    /\ current_state[6] = Some(0)

(***************************************************************************)
(* A line that never falls silent: the steady feed                         *)
(***************************************************************************)
\* the Gas packet the heater goes on sending once its readings have settled
SteadyFrame == GasFrame(250, 30)
\* what it sends before that
SteadyTransient == {GasFrame(100, 20)} \cup WaterFrames
\* new_state of process_gas_packet for the settled readings
SteadyCandidate == GasNewState(SteadyFrame)

\* the program starts on the steady feed; values are printed, so that
\* publishing cannot fail
SteadyInit ==
    /\ Loaded
    /\ feed = "steady"
    /\ noise = << >>
    /\ debug_mqtt = TRUE
    /\ now = 1000

\* the next packet arrives, a second after the one before: one of the
\* transient while fewer than MaxArrivals have arrived, the settled one
\* from then on, without end.  The program sees a packet at its next
\* ser.read(1), so the packet is taken to arrive while it stands there
ArriveSteady ==
    /\ feed = "steady"
    /\ serial = "open" /\ pc = "seek1"
    /\ ser = << >>
    /\ \E f \in (IF arrivals < MaxArrivals THEN SteadyTransient ELSE {SteadyFrame}) :
         /\ ser' = f
         /\ expect' = Append(expect, f)
    /\ arrivals' = IF arrivals < MaxArrivals THEN arrivals + 1 ELSE arrivals
    /\ now' = Advance(now, feed)
    /\ ev' = Event("arrive", "frames", "")
    /\ UNCHANGED << pc, serial, header_rest, packet, mqttVars,
                    cancelRequested, clean, exit, fixedVars >>

\* the steps the program takes when nothing fails and nobody cancels
SteadyProgram ==
    \/ OpenSerial
    \/ Connect
    \/ SeekMarker1
    \/ SeekMarker2
    \/ ReadHeaderTail
    \/ ReadPayloadAndChecksum
    \/ ProcessPacket
    \/ Yield

SteadyNext == SteadyProgram \/ ArriveSteady

\* the event loop keeps running the task and packets keep arriving, the
\* clock advancing with them (up to the horizon followed); a read that
\* times out disables the arrival for a step, hence strong fairness
SteadySpec ==
    /\ SteadyInit /\ [][SteadyNext]_vars
    /\ WF_vars(SteadyProgram) /\ SF_vars(ArriveSteady)

\* from here on every packet decoded is the settled one
SteadyPhase ==
    /\ feed = "steady" /\ arrivals = MaxArrivals /\ pc # "done"
    /\ \A i \in 1..Len(expect) : expect[i] = SteadyFrame
\* the clock followed reaches the end of attribute m's throttle window
TimeLeft(m) ==
    \/ last_publish_time[m] = None
    \/ \E s \in StartClocks :
         /\ now \in s .. (s + Horizon(feed))
         /\ last_publish_time[m][1] + PublishInterval <= s + Horizon(feed)
\* the settled value of attribute m is not the one last published
Pending(m) ==
    /\ SteadyPhase
    /\ SteadyCandidate[m] # None
    /\ current_state[m] # SteadyCandidate[m]
    /\ TimeLeft(m)

\* C22: no changed value is withheld for ever.  Once every packet decoded
\* offers the same value for an attribute and that value is not the one
\* last published, it is published in the end; and it is published by the
\* first packet handled once the throttle interval has passed since the
\* attribute's last publish
C22_ChangedValuePublished ==
    /\ \A m \in GasMetrics : Pending(m) ~> (current_state[m] = SteadyCandidate[m])
    /\ [][\A m \in GasMetrics :
            (ProcessStep /\ Pending(m) /\ WindowOpen(last_publish_time[m], now))
               => (ev'.out[m] = "publish" /\ current_state'[m] = SteadyCandidate[m])]_vars

\* the settled gas usage is published: a settled packet is handled whose
\* inlet temperature is the one a transient Gas packet had published,
\* together with another gas usage, at least the throttle interval ago
C22_Witness ==
    /\ feed = "steady" /\ arrivals = MaxArrivals
    /\ ev.op = "process" /\ packet = Some(SteadyFrame)
    /\ ev.out[1] = "publish" /\ ev.out[7] = "same"
    /\ current_state[1] = SteadyCandidate[1]
    /\ now - last_publish_time[7][1] >= PublishInterval
====
